---- MODULE Spec2Model ----
(***************************************************************************)
(* A model of the Cavl AVL tree (src/cavl.h).  The node storage is the     *)
(* array t of Cavl records, one per key, as in the unit tests; pointers    *)
(* are node indices and NULL is 0.  Every public function is one action    *)
(* that runs the function to its end: to a normal return, to a failed      *)
(* assertion (builds without NDEBUG), to a NULL dereference, or into a     *)
(* loop that never ends.                                                   *)
(***************************************************************************)
EXTENDS Integers, FiniteSets, Sequences, TLC

\* Number of node records the caller owns; node i carries the key i.
NumKeys == 5
\* Number of calls that may change the tree in one run.
MaxOps == 6

\* The unit-level specification: number of nodes the caller owns, and the
\* largest number of unlinking and rotating calls in a run.
UnitKeys == 6
MaxUnitOps == 2

NULL == 0
Nodes == 1..NumKeys

VARIABLES
    t,       \* the node records: t[i] = [up, lr, bf]; t[i].lr is indexed by 0, 1
    root,    \* the caller's root pointer
    mask,    \* the caller's shadow set: keys inserted and not removed
    ndebug,  \* TRUE when the build defines NDEBUG (assert expands to nothing)
    status,  \* "ok" | "abort" | "segv" | "hang": how the last call ended
    nops,    \* number of calls made that may change the tree
    last,    \* what the last call was and what it returned
    stale,   \* TRUE when the node the factory returned in the last call carried
             \* links or a balance factor left over from an earlier use
    rootB,   \* the root pointer of a second tree kept in the same node records
    maskB    \* the shadow set of the second tree

vars == <<t, root, mask, ndebug, status, nops, last, stale, rootB, maskB>>

\* A Cavl record as the library sees it (the value field is the node's index).
Cavl(up, l, r, bf) == [up |-> up, lr |-> (0 :> l @@ 1 :> r), bf |-> bf]

\* C's conversion of a bool to an array index, and the ! operator on an index.
B2I(b) == IF b THEN 1 ELSE 0
Not(r) == 1 - r

\* The result of running a piece of the library on the heap h:
\* the heap afterwards, the root pointer afterwards, the value returned,
\* how it ended, and the assertions that evaluated to false on the way.
Res(h, rt, out, st, af) == [h |-> h, rt |-> rt, out |-> out, st |-> st, af |-> af]

\* assert(cond) at source line `line`: TRUE when execution goes on.
Passes(cond, nd) == cond \/ nd
Failed(cond, line) == IF cond THEN {} ELSE {line}

----------------------------------------------------------------------------
\* cavlFindExtremum: follow lr[maximum] from root until NULL.
RECURSIVE ExtremumLoop(_, _, _, _, _)
ExtremumLoop(h, c, result, maximum, seen) ==
    IF c = NULL THEN Res(h, NULL, result, "ok", {})
    ELSE IF c \in seen THEN Res(h, NULL, NULL, "hang", {})
    ELSE ExtremumLoop(h, h[c].lr[maximum], c, maximum, seen \cup {c})

\* A cavlFindExtremum that returns the node it is given without descending.
cavlFindExtremum_NoDescent(h, rt, maximum) == Res(h, NULL, rt, "ok", {})

cavlFindExtremum(h, rt, maximum) == ExtremumLoop(h, rt, NULL, maximum, {})

\* The upward part of next_greater: walk up while the current node is the
\* right child of its parent; the parent reached from its left child (or NULL
\* above the root) is the result.  A parent met twice ends the walk with NULL.
RECURSIVE ClimbWhileRight(_, _, _)
ClimbWhileRight(h, c, seen) ==
    IF h[c].up = NULL THEN NULL
    ELSE IF h[h[c].up].lr[1] # c THEN h[c].up
    ELSE IF h[c].up \in seen THEN NULL
    ELSE ClimbWhileRight(h, h[c].up, seen \cup {h[c].up})

\* next_greater(n): the minimum of the right subtree if there is one, else
\* the first ancestor reached from its left child.
next_greater(h, n) ==
    IF h[n].lr[1] # NULL THEN cavlFindExtremum(h, h[n].lr[1], 0).out
    ELSE ClimbWhileRight(h, n, {n})

----------------------------------------------------------------------------
\* A rotation that leaves the up link of the child that changes sides as it was.
_cavlRotate_NoChildUp(h, x, r, nd) ==
    IF h[x].lr[Not(r)] = NULL THEN Res(h, NULL, NULL, "segv", {})
    ELSE
      LET z  == h[x].lr[Not(r)]
          h1 == IF h[x].up # NULL
                THEN [h EXCEPT ![h[x].up].lr[B2I(h[h[x].up].lr[1] = x)] = z]
                ELSE h
          h2 == [h1 EXCEPT ![z].up = h1[x].up]
          h3 == [h2 EXCEPT ![x].up = z]
          h4 == [h3 EXCEPT ![x].lr[Not(r)] = h3[z].lr[r]]
          h5 == h4
      IN  Res([h5 EXCEPT ![z].lr[r] = x], NULL, z, "ok", {})

\* A rotation that always stores the new top in the left slot of x's parent.
_cavlRotate_ParentLeft(h, x, r, nd) ==
    IF h[x].lr[Not(r)] = NULL THEN Res(h, NULL, NULL, "segv", {})
    ELSE
      LET z  == h[x].lr[Not(r)]
          h1 == IF h[x].up # NULL
                THEN [h EXCEPT ![h[x].up].lr[0] = z]
                ELSE h
          h2 == [h1 EXCEPT ![z].up = h1[x].up]
          h3 == [h2 EXCEPT ![x].up = z]
          h4 == [h3 EXCEPT ![x].lr[Not(r)] = h3[z].lr[r]]
          h5 == IF h4[x].lr[Not(r)] # NULL THEN [h4 EXCEPT ![h4[x].lr[Not(r)]].up = x] ELSE h4
      IN  Res([h5 EXCEPT ![z].lr[r] = x], NULL, z, "ok", {})

\* _cavlRotate(x, r): makes the !r child of x its parent.
_cavlRotate(h, x, r, nd) ==
    LET z   == h[x].lr[Not(r)]
        a97 == (x # NULL) /\ (z # NULL) /\ (h[x].bf >= -1) /\ (h[x].bf <= 1)
        af  == Failed(a97, 97)
    IN  IF ~Passes(a97, nd) THEN Res(h, NULL, NULL, "abort", af)
        ELSE LET h1 == IF h[x].up # NULL
                       THEN [h EXCEPT ![h[x].up].lr[B2I(h[h[x].up].lr[1] = x)] = z]
                       ELSE h
             IN  IF z = NULL THEN Res(h1, NULL, NULL, "segv", af)   \* z->up
                 ELSE LET h2 == [h1 EXCEPT ![z].up = h1[x].up]
                          h3 == [h2 EXCEPT ![x].up = z]
                          h4 == [h3 EXCEPT ![x].lr[Not(r)] = h3[z].lr[r]]
                          h5 == IF h4[x].lr[Not(r)] # NULL
                                THEN [h4 EXCEPT ![h4[x].lr[Not(r)]].up = x]
                                ELSE h4
                          h6 == [h5 EXCEPT ![z].lr[r] = x]
                      IN  Res(h6, NULL, z, "ok", af)

----------------------------------------------------------------------------
\* Adds the assertions af that failed earlier to those of the result res.
WithAf(res, af) == [res EXCEPT !.af = @ \cup af]

\* The new balance factor with the direction of the change inverted.
new_bf_Inverted(bf, increment) == bf - (IF increment THEN 1 ELSE -1)

\* The candidate balance factor of _cavlAdjustBalance.
new_bf(bf, increment) == bf + (IF increment THEN 1 ELSE -1)

\* The rotation test with its limits off by one: -2 and +2 pass as balanced.
NeedsRotation_OffByOne(nb) == (nb < -2) \/ (nb > 2)

\* The test that sends _cavlAdjustBalance into its rotation branch.
NeedsRotation(nb) == (nb < -1) \/ (nb > 1)

\* The single rotation's balance factors with the candidate value -2 * sign
\* left in x when z was balanced.
RepaintSingle_StoresCandidate(h, x, z, sign) ==
    IF h[z].bf = 0
    THEN [[h EXCEPT ![x].bf = -2 * sign] EXCEPT ![z].bf = sign]
    ELSE [[h EXCEPT ![x].bf = 0] EXCEPT ![z].bf = 0]

\* The single rotation's balance factors with its two cases swapped.
RepaintSingle_Swapped(h, x, z, sign) ==
    IF h[z].bf # 0
    THEN [[h EXCEPT ![x].bf = -sign] EXCEPT ![z].bf = sign]
    ELSE [[h EXCEPT ![x].bf = 0] EXCEPT ![z].bf = 0]

\* The balance factors written after a single rotation of x toward r (z was x's heavy child).
RepaintSingle(h, x, z, sign) ==
    IF h[z].bf = 0
    THEN [[h EXCEPT ![x].bf = -sign] EXCEPT ![z].bf = sign]
    ELSE [[h EXCEPT ![x].bf = 0] EXCEPT ![z].bf = 0]

\* The double rotation's balance factors with y's own left as it was.
RepaintDouble_KeepsY(h, x, y, z, sign) ==
    IF h[y].bf * sign < 0
    THEN [[h EXCEPT ![x].bf = sign] EXCEPT ![z].bf = 0]
    ELSE IF h[y].bf * sign > 0
    THEN [[h EXCEPT ![x].bf = 0] EXCEPT ![z].bf = -sign]
    ELSE [[h EXCEPT ![x].bf = 0] EXCEPT ![z].bf = 0]

\* The balance factors written after a double rotation (y was z's inner child).
RepaintDouble(h, x, y, z, sign) ==
    IF h[y].bf * sign < 0
    THEN [[[h EXCEPT ![x].bf = sign] EXCEPT ![y].bf = 0] EXCEPT ![z].bf = 0]
    ELSE IF h[y].bf * sign > 0
    THEN [[[h EXCEPT ![x].bf = 0] EXCEPT ![y].bf = 0] EXCEPT ![z].bf = -sign]
    ELSE [[h EXCEPT ![x].bf = 0] EXCEPT ![z].bf = 0]

\* The branch of _cavlAdjustBalance with one rotation, entered with the result
\* ro of _cavlRotate(x, r).
SingleRotation(ro, x, z, sign, af) ==
    IF ro.st # "ok" THEN WithAf(ro, af)
    ELSE Res(RepaintSingle(ro.h, x, z, sign), NULL, ro.out, "ok", af \cup ro.af)

\* The end of the branch with two rotations, entered with the result r2 of the
\* second one, _cavlRotate(x, r).
DoubleRotationEnd(r2, x, y, z, sign, af) ==
    IF r2.st # "ok" THEN WithAf(r2, af)
    ELSE Res(RepaintDouble(r2.h, x, y, z, sign), NULL, r2.out, "ok", af \cup r2.af)

\* The branch of _cavlAdjustBalance with two rotations, entered with the result
\* r1 of the first one, _cavlRotate(z, !r).
DoubleRotation(r1, x, y, z, r, sign, nd, af) ==
    IF r1.st # "ok" THEN WithAf(r1, af)
    ELSE DoubleRotationEnd(_cavlRotate(r1.h, x, r, nd), x, y, z, sign, af \cup r1.af)

\* _cavlAdjustBalance(x, increment): changes x's balance factor by +1 or -1,
\* rotating when the result would leave -1..+1; returns the subtree's top node.
_cavlAdjustBalance(h, x, increment, nd) ==
    LET a119 == (x # NULL) /\ (h[x].bf >= -1) /\ (h[x].bf <= 1)
        af0  == Failed(a119, 119)
        nb   == new_bf(h[x].bf, increment)
    IN  IF ~Passes(a119, nd) THEN Res(h, NULL, NULL, "abort", af0)
        ELSE IF ~NeedsRotation(nb) THEN Res([h EXCEPT ![x].bf = nb], NULL, x, "ok", af0)
        ELSE
          LET r    == B2I(nb < 0)
              sign == IF r = 1 THEN 1 ELSE -1
              z    == h[x].lr[Not(r)]
              a127 == z # NULL
              af1  == af0 \cup Failed(a127, 127)
          IN  IF ~Passes(a127, nd) THEN Res(h, NULL, NULL, "abort", af1)
              ELSE IF z = NULL THEN Res(h, NULL, NULL, "segv", af1)   \* z->bf
              ELSE IF h[z].bf * sign <= 0
              THEN SingleRotation(_cavlRotate(h, x, r, nd), x, z, sign, af1)
              ELSE LET y    == h[z].lr[r]
                       a145 == y # NULL
                       af2  == af1 \cup Failed(a145, 145)
                   IN  IF ~Passes(a145, nd) THEN Res(h, NULL, NULL, "abort", af2)
                       ELSE DoubleRotation(_cavlRotate(h, z, Not(r), nd), x, y, z, r, sign, nd, af2)

----------------------------------------------------------------------------
\* The loop of _cavlRetraceOnGrowth: c is the child just handled, p its parent.
\* The result's rt field carries p as it is when the loop is left.
RECURSIVE GrowthLoop(_, _, _, _, _, _)

\* The rest of one pass of the loop, entered with the result ab of
\* _cavlAdjustBalance(p, r); seen holds the loop states passed so far.
GrowthStep(ab, seen, nd, af) ==
    IF ab.st # "ok" THEN WithAf(ab, af)
    ELSE LET c2 == ab.out
             p2 == ab.h[c2].up
         IN  IF ab.h[c2].bf = 0
             THEN Res(ab.h, p2, c2, "ok", af \cup ab.af)
             ELSE GrowthLoop(ab.h, c2, p2, seen, nd, af \cup ab.af)

GrowthLoop(h, c, p, seen, nd, af) ==
    IF p = NULL THEN Res(h, p, c, "ok", af)
    ELSE IF <<h, c, p>> \in seen THEN Res(h, p, c, "hang", af)
    ELSE
      LET r    == B2I(h[p].lr[1] = c)
          a185 == h[p].lr[r] = c
          af1  == af \cup Failed(a185, 185)
      IN  IF ~Passes(a185, nd) THEN Res(h, p, c, "abort", af1)
          ELSE GrowthStep(_cavlAdjustBalance(h, p, r = 1, nd), seen \cup {<<h, c, p>>}, nd, af1)

\* The return statement of _cavlRetraceOnGrowth, entered with the loop's result lp.
GrowthReturn(lp) ==
    IF lp.st # "ok" THEN lp
    ELSE Res(lp.h, NULL, IF lp.rt = NULL THEN lp.out ELSE NULL, "ok", lp.af)

\* _cavlRetraceOnGrowth(added): returns NULL or the root of the tree.
_cavlRetraceOnGrowth(h, added, nd) ==
    LET a179 == (added # NULL) /\ (h[added].bf = 0)
        af0  == Failed(a179, 179)
    IN  IF ~Passes(a179, nd) THEN Res(h, NULL, NULL, "abort", af0)
        ELSE GrowthReturn(GrowthLoop(h, added, h[added].up, {}, nd, af0))

----------------------------------------------------------------------------
\* The three-way comparison the callers pass as CavlPredicate: positive when
\* the searched key is greater than the node's value, zero on a match.
predicate(key, node) == IF key > node THEN 1 ELSE IF key < node THEN -1 ELSE 0

\* A Cavl** as cavlSearch holds it: the root pointer (node = NULL) or the
\* lr[side] field of a node.
Slot(node, side) == [node |-> node, side |-> side]
Deref(h, rt, n) == IF n.node = NULL THEN rt ELSE h[n.node].lr[n.side]

\* The descent loop of cavlSearch.  The result's out is the match or NULL,
\* up the last node left behind and n the slot the descent stopped at.
RECURSIVE SearchLoop(_, _, _, _, _, _, _, _)
SearchLoop(h, rt, key, up, n, seen, nd, af) ==
    LET cur == Deref(h, rt, n)
    IN  IF cur = NULL THEN [out |-> NULL, up |-> up, n |-> n, st |-> "ok", af |-> af]
        ELSE IF cur \in seen THEN [out |-> NULL, up |-> up, n |-> n, st |-> "hang", af |-> af]
        ELSE
          LET cmp == predicate(key, cur)
          IN  IF cmp = 0 THEN [out |-> cur, up |-> up, n |-> n, st |-> "ok", af |-> af]
              ELSE LET n2   == Slot(cur, B2I(cmp > 0))
                       nx   == Deref(h, rt, n2)
                       a217 == (nx = NULL) \/ (h[nx].up = cur)
                       af1  == af \cup Failed(a217, 217)
                   IN  IF ~Passes(a217, nd)
                       THEN [out |-> NULL, up |-> cur, n |-> n2, st |-> "abort", af |-> af1]
                       ELSE SearchLoop(h, rt, key, cur, n2, seen \cup {cur}, nd, af1)

\* What the caller's factory does: "null" is a NULL function pointer, "refuse"
\* a factory that returns NULL, "make" one that returns the caller's node for the key.
FactoryKinds == {"null", "refuse", "make"}
factory(kind, key) == IF kind = "make" THEN key ELSE NULL

\* The end of the insertion branch, entered with the result rg of
\* _cavlRetraceOnGrowth(out): a new root, if one is returned, is stored in *root.
SearchStoreRoot(rg, rt, out, af) ==
    IF rg.st # "ok" THEN Res(rg.h, rt, NULL, rg.st, af \cup rg.af)
    ELSE Res(rg.h, IF rg.out # NULL THEN rg.out ELSE rt, out, "ok", af \cup rg.af)

\* The insertion branch without the stores to out->lr: the node keeps the
\* children it carried.
SearchInsert_KeepChildren(h, rt, out, up, n, nd, af) ==
    LET h1  == IF n.node = NULL THEN h ELSE [h EXCEPT ![n.node].lr[n.side] = out]
        rt1 == IF n.node = NULL THEN out ELSE rt
        h2  == [h1 EXCEPT ![out].up = up, ![out].bf = 0]
    IN  SearchStoreRoot(_cavlRetraceOnGrowth(h2, out, nd), rt1, out, af)

\* The insertion branch of cavlSearch: splice out into slot n and retrace.
SearchInsert(h, rt, out, up, n, nd, af) ==
    LET h1  == IF n.node = NULL THEN h ELSE [h EXCEPT ![n.node].lr[n.side] = out]
        rt1 == IF n.node = NULL THEN out ELSE rt
        h2  == [h1 EXCEPT ![out] = Cavl(up, NULL, NULL, 0)]
    IN  SearchStoreRoot(_cavlRetraceOnGrowth(h2, out, nd), rt1, out, af)

\* What cavlSearch does after its descent loop has ended with the result w.
SearchAfterLoop(w, h, rt, key, kind, nd) ==
    IF w.st # "ok" THEN Res(h, rt, NULL, w.st, w.af) @@ [fc |-> FALSE]
    ELSE IF w.out # NULL THEN Res(h, rt, w.out, "ok", w.af) @@ [fc |-> FALSE]
    ELSE LET out == factory(kind, key)
         IN  IF out = NULL THEN Res(h, rt, NULL, "ok", w.af) @@ [fc |-> kind # "null"]
             ELSE SearchInsert(h, rt, out, w.up, w.n, nd, w.af) @@ [fc |-> TRUE]

\* cavlSearch without its test of the arguments: the descent starts at once.
cavlSearch_NoArgumentTest(h, rt, rootOk, key, predOk, kind, nd) ==
    SearchAfterLoop(SearchLoop(h, rt, key, rt, Slot(NULL, 0), {}, nd, {}), h, rt, key, kind, nd)

\* cavlSearch(root, user_reference, predicate, factory).  rootOk and predOk say
\* that the root and predicate arguments are not NULL.  The result's fc field
\* says whether the factory was invoked.
cavlSearch(h, rt, rootOk, key, predOk, kind, nd) ==
    IF ~(rootOk /\ predOk) THEN Res(h, rt, NULL, "ok", {}) @@ [fc |-> FALSE]
    ELSE SearchAfterLoop(SearchLoop(h, rt, key, rt, Slot(NULL, 0), {}, nd, {}), h, rt, key, kind, nd)

----------------------------------------------------------------------------
\* The assignments of the two-children branch that follow re->lr[0] = node->lr[0]
\* (h is the heap after it): re takes node's place below node's parent.
RemoveRelink(h, rt, node, re, p, af) ==
    LET h2  == IF p # node THEN [h EXCEPT ![p].lr[0] = h[re].lr[1]] ELSE h
        h3  == IF p # node THEN [h2 EXCEPT ![re].lr[1] = h2[node].lr[1]] ELSE h2
        r   == IF p # node THEN 0 ELSE 1
        h4  == [h3 EXCEPT ![re].up = h3[node].up]
        pu  == h4[re].up
        h5  == IF pu # NULL
               THEN [h4 EXCEPT ![pu].lr[B2I(h4[pu].lr[1] = node)] = re]
               ELSE h4
        rt1 == IF pu # NULL THEN rt ELSE re
    IN  Res(h5, rt1, p, "ok", af) @@ [r |-> r]

\* The two-children branch from its assertion on, entered with the result ex
\* of cavlFindExtremum(node->lr[1], false).
RemoveReplace(ex, h, rt, node, nd, af) ==
    IF ex.st # "ok" THEN Res(h, rt, NULL, ex.st, af) @@ [r |-> 0]
    ELSE
      LET re   == ex.out
          a253 == (re # NULL) /\ (h[re].lr[0] = NULL) /\ (h[re].up # NULL)
                  /\ (h[h[re].up].lr[0] = re)
          af1  == af \cup Failed(a253, 253)
          p    == h[re].up
          h1   == [h EXCEPT ![re].lr[0] = h[node].lr[0]]
      IN  IF ~Passes(a253, nd) THEN Res(h, rt, NULL, "abort", af1) @@ [r |-> 0]
          ELSE IF (p # node) /\ (p = NULL) THEN Res(h1, rt, NULL, "segv", af1) @@ [r |-> 0]  \* p->lr[0]
          ELSE RemoveRelink(h1, rt, node, re, p, af1)

\* The first step of cavlRemove for a node with two children: the successor re
\* takes node's place.  The result's out is the node p to retrace from and its
\* r field the side of p that got shorter.
RemoveTwoChildren(h, rt, node, nd, af) ==
    RemoveReplace(cavlFindExtremum(h, h[node].lr[1], 0), h, rt, node, nd, af)

\* The first step of cavlRemove for a node with at most one child.
RemoveOneChild(h, rt, node, af) ==
    LET p   == h[node].up
        rr  == B2I(h[node].lr[1] # NULL)
        ch  == h[node].lr[rr]
        h1  == IF ch # NULL THEN [h EXCEPT ![ch].up = p] ELSE h
        r   == IF p # NULL THEN B2I(h1[p].lr[1] = node) ELSE 0
        h2  == IF p # NULL THEN [h1 EXCEPT ![p].lr[r] = h1[node].lr[rr]] ELSE h1
        rt1 == IF p # NULL THEN rt ELSE h1[node].lr[rr]
    IN  Res(h2, rt1, p, "ok", af) @@ [r |-> r]

\* The retracing loop of cavlRemove.  The result's out is c and rt is p, as
\* they are when the loop is left.
RECURSIVE ShrinkLoop(_, _, _, _, _, _, _)

\* The rest of one pass of the loop, entered with the result ab of
\* _cavlAdjustBalance(p, !r); seen holds the loop states passed so far.
ShrinkStep(ab, seen, nd, af) ==
    IF ab.st # "ok" THEN WithAf(ab, af)
    ELSE LET c2 == ab.out
             p2 == ab.h[c2].up
         IN  IF (ab.h[c2].bf # 0) \/ (p2 = NULL)
             THEN Res(ab.h, p2, c2, "ok", af \cup ab.af)
             ELSE ShrinkLoop(ab.h, c2, p2, B2I(ab.h[p2].lr[1] = c2), seen, nd, af \cup ab.af)

ShrinkLoop(h, c, p, r, seen, nd, af) ==
    IF p = NULL THEN Res(h, p, c, "ok", af)
    ELSE IF <<h, c, p, r>> \in seen THEN Res(h, p, c, "hang", af)
    ELSE ShrinkStep(_cavlAdjustBalance(h, p, r = 0, nd), seen \cup {<<h, c, p, r>>}, nd, af)

\* The end of cavlRemove, entered with the retracing loop's result lp: a new
\* root, if the loop reached the top, is stored in *root (rt is *root before).
RemoveStoreRoot(lp, rt) ==
    IF lp.st # "ok" THEN Res(lp.h, rt, NULL, lp.st, lp.af)
    ELSE Res(lp.h, IF (lp.rt = NULL) /\ (lp.out # NULL) THEN lp.out ELSE rt, NULL, "ok", lp.af)

\* The second step of cavlRemove, entered with the first step's result tp.
RemoveRetrace(tp, nd) ==
    IF tp.st # "ok" THEN Res(tp.h, tp.rt, NULL, tp.st, tp.af)
    ELSE RemoveStoreRoot(ShrinkLoop(tp.h, NULL, tp.out, tp.r, {}, nd, tp.af), tp.rt)

\* cavlRemove(root, node).  rootOk says that the root argument is not NULL.
cavlRemove(h, rt, rootOk, node, nd) ==
    IF ~(rootOk /\ (node # NULL)) THEN Res(h, rt, NULL, "ok", {})
    ELSE
      LET a244 == rt # NULL
          a245 == (h[node].up # NULL) \/ (node = rt)
          af0  == Failed(a244, 244) \cup Failed(a245, 245)
      IN  IF ~Passes(a244 /\ a245, nd) THEN Res(h, rt, NULL, "abort", af0)
          ELSE
            RemoveRetrace(IF (h[node].lr[0] # NULL) /\ (h[node].lr[1] # NULL)
                          THEN RemoveTwoChildren(h, rt, node, nd, af0)
                          ELSE RemoveOneChild(h, rt, node, af0),
                          nd)

----------------------------------------------------------------------------
\* What the last call was: op, its key (or 0/1 for the maximum flag), the kind
\* of factory passed, the value returned, whether the factory ran, and the
\* source lines of the assertions that evaluated to false.
Last(op, arg, kind, out, fc, af) ==
    [op |-> op, arg |-> arg, kind |-> kind, out |-> out, fc |-> fc, af |-> af]

Init ==
    /\ t = [n \in Nodes |-> Cavl(NULL, NULL, NULL, 0)]
    /\ root = NULL
    /\ mask = {}
    /\ ndebug \in BOOLEAN
    /\ status = "ok"
    /\ nops = 0
    /\ last = Last("none", 0, "null", NULL, FALSE, {})
    /\ stale = FALSE
    /\ rootB = NULL
    /\ maskB = {}

\* The caller runs cavlSearch(&root, key, predicate, factory).
Search(key, kind) ==
    /\ status = "ok"
    /\ (kind = "make") => (nops < MaxOps)
    /\ \E res \in {cavlSearch(t, root, TRUE, key, TRUE, kind, ndebug)} :
           /\ status' = res.st
           /\ t' = IF res.st = "ok" THEN res.h ELSE t
           /\ root' = IF res.st = "ok" THEN res.rt ELSE root
           /\ mask' = IF (res.st = "ok") /\ (kind = "make") /\ res.fc THEN mask \cup {key} ELSE mask
           /\ last' = Last("search", key, kind, res.out, res.fc, res.af)
           /\ stale' = ((kind = "make") /\ res.fc /\ (t[key] # Cavl(NULL, NULL, NULL, 0)))
    /\ nops' = IF kind = "make" THEN nops + 1 ELSE nops
    /\ UNCHANGED <<ndebug, rootB, maskB>>

\* The caller runs cavlRemove(&root, &t[key]) on a node it has inserted.
Remove(key) ==
    /\ status = "ok"
    /\ key \in mask
    /\ nops < MaxOps
    /\ \E res \in {cavlRemove(t, root, TRUE, key, ndebug)} :
           /\ status' = res.st
           /\ t' = IF res.st = "ok" THEN res.h ELSE t
           /\ root' = IF res.st = "ok" THEN res.rt ELSE root
           /\ mask' = IF res.st = "ok" THEN mask \ {key} ELSE mask
           /\ last' = Last("remove", key, "null", NULL, FALSE, res.af)
    /\ nops' = nops + 1
    /\ stale' = FALSE
    /\ UNCHANGED <<ndebug, rootB, maskB>>

\* The caller runs cavlFindExtremum(root, maximum).
Extremum(maximum) ==
    /\ status = "ok"
    /\ \E res \in {cavlFindExtremum(t, root, maximum)} :
           /\ status' = res.st
           /\ last' = Last("extremum", maximum, "null", res.out, FALSE, res.af)
    /\ stale' = FALSE
    /\ UNCHANGED <<t, root, mask, ndebug, nops, rootB, maskB>>

\* The caller runs cavlSearch with a NULL root argument or a NULL predicate.
SearchAbsent(key, kind, rootOk, predOk) ==
    /\ status = "ok"
    /\ ~(rootOk /\ predOk)
    /\ \E res \in {cavlSearch(t, root, rootOk, key, predOk, kind, ndebug)} :
           /\ status' = res.st
           /\ t' = IF res.st = "ok" THEN res.h ELSE t
           /\ root' = IF res.st = "ok" THEN res.rt ELSE root
           /\ last' = Last("search_absent", key, kind, res.out, res.fc, res.af)
    /\ stale' = FALSE
    /\ UNCHANGED <<mask, ndebug, nops, rootB, maskB>>

\* The caller runs cavlRemove with a NULL root argument or a NULL node.
RemoveAbsent(node, rootOk) ==
    /\ status = "ok"
    /\ ~(rootOk /\ (node # NULL))
    /\ \E res \in {cavlRemove(t, root, rootOk, node, ndebug)} :
           /\ status' = res.st
           /\ t' = IF res.st = "ok" THEN res.h ELSE t
           /\ root' = IF res.st = "ok" THEN res.rt ELSE root
           /\ last' = Last("remove_absent", node, "null", NULL, FALSE, res.af)
    /\ stale' = FALSE
    /\ UNCHANGED <<mask, ndebug, nops, rootB, maskB>>

Next ==
    \/ \E key \in Nodes, kind \in FactoryKinds : Search(key, kind)
    \/ \E key \in Nodes : Remove(key)
    \/ \E maximum \in 0..1 : Extremum(maximum)
    \/ \E key \in Nodes, rootOk, predOk \in BOOLEAN : SearchAbsent(key, "make", rootOk, predOk)
    \/ \E node \in mask \cup {NULL}, rootOk \in BOOLEAN : RemoveAbsent(node, rootOk)

Spec == Init /\ [][Next]_vars

----------------------------------------------------------------------------
\* Two trees A (root, mask) and B (rootB, maskB) whose nodes come from the same
\* array; a node is handed to one tree only while the caller does not hold it
\* in the other.

\* The caller inserts its node for key into tree A.
InsertA(key) ==
    /\ key \notin maskB
    /\ Search(key, "make")

\* The caller runs cavlSearch(&rootB, key, predicate, factory) with a factory
\* that returns its node for key.
InsertB(key) ==
    /\ status = "ok"
    /\ nops < MaxOps
    /\ key \notin mask
    /\ \E res \in {cavlSearch(t, rootB, TRUE, key, TRUE, "make", ndebug)} :
           /\ status' = res.st
           /\ t' = IF res.st = "ok" THEN res.h ELSE t
           /\ rootB' = IF res.st = "ok" THEN res.rt ELSE rootB
           /\ maskB' = IF (res.st = "ok") /\ res.fc THEN maskB \cup {key} ELSE maskB
           /\ last' = Last("searchB", key, "make", res.out, res.fc, res.af)
           /\ stale' = (res.fc /\ (t[key] # Cavl(NULL, NULL, NULL, 0)))
    /\ nops' = nops + 1
    /\ UNCHANGED <<root, mask, ndebug>>

\* The caller runs cavlRemove(&rootB, &t[key]) on a node it has inserted into B.
RemoveB(key) ==
    /\ status = "ok"
    /\ key \in maskB
    /\ nops < MaxOps
    /\ \E res \in {cavlRemove(t, rootB, TRUE, key, ndebug)} :
           /\ status' = res.st
           /\ t' = IF res.st = "ok" THEN res.h ELSE t
           /\ rootB' = IF res.st = "ok" THEN res.rt ELSE rootB
           /\ maskB' = IF res.st = "ok" THEN maskB \ {key} ELSE maskB
           /\ last' = Last("removeB", key, "null", NULL, FALSE, res.af)
    /\ nops' = nops + 1
    /\ stale' = FALSE
    /\ UNCHANGED <<root, mask, ndebug>>

NextTwo ==
    \/ \E key \in Nodes : InsertA(key)
    \/ \E key \in Nodes : Remove(key)
    \/ \E key \in Nodes : InsertB(key)
    \/ \E key \in Nodes : RemoveB(key)

SpecTwo == Init /\ [][NextTwo]_vars

----------------------------------------------------------------------------
\* The manual test's tree: 31 nodes inserted in a fixed order, with the
\* extremum queries made along the way.
insertion_order ==
    << 2, 1, 4, 3, 6, 5, 8, 7, 10, 9, 12, 11, 14, 13, 16, 15, 18, 17, 20, 19,
       22, 21, 24, 23, 26, 25, 28, 27, 31, 30, 29 >>

InitS1 ==
    /\ t = [n \in 1..Len(insertion_order) |-> Cavl(NULL, NULL, NULL, 0)]
    /\ root = NULL
    /\ mask = {}
    /\ ndebug \in BOOLEAN
    /\ status = "ok"
    /\ nops = 0
    /\ last = Last("none", 0, "null", NULL, FALSE, {})
    /\ stale = FALSE
    /\ rootB = NULL
    /\ maskB = {}

\* The caller inserts the next node of insertion_order.
InsertNext ==
    /\ status = "ok"
    /\ nops < Len(insertion_order)
    /\ \E key \in {insertion_order[nops + 1]} :
       \E res \in {cavlSearch(t, root, TRUE, key, TRUE, "make", ndebug)} :
           /\ status' = res.st
           /\ t' = IF res.st = "ok" THEN res.h ELSE t
           /\ root' = IF res.st = "ok" THEN res.rt ELSE root
           /\ mask' = IF (res.st = "ok") /\ res.fc THEN mask \cup {key} ELSE mask
           /\ last' = Last("search", key, "make", res.out, res.fc, res.af)
           /\ stale' = (res.fc /\ (t[key] # Cavl(NULL, NULL, NULL, 0)))
    /\ nops' = nops + 1
    /\ UNCHANGED <<ndebug, rootB, maskB>>

\* The caller asks for the in-order successor of a node of the tree.
NextGreater(node) ==
    /\ status = "ok"
    /\ node \in mask
    /\ last' = Last("next_greater", node, "null", next_greater(t, node), FALSE, {})
    /\ stale' = FALSE
    /\ UNCHANGED <<t, root, mask, ndebug, status, nops, rootB, maskB>>

NextS1 ==
    \/ InsertNext
    \/ \E maximum \in 0..1 : Extremum(maximum)
    \/ \E node \in DOMAIN t : NextGreater(node)

SpecS1 == InitS1 /\ [][NextS1]_vars

----------------------------------------------------------------------------
\* The removal test: a tree of nine nodes set up by hand, 4{2{1,3},6{5,8{7,9}}},
\* from which the nodes are removed in a fixed order, with lookups and
\* extremum queries in between.
removal_order == << 9, 8, 4, 5, 6, 1, 7, 3, 2 >>

InitS4 ==
    /\ t = << Cavl(2, NULL, NULL, 0), Cavl(4, 1, 3, 0), Cavl(2, NULL, NULL, 0),
              Cavl(NULL, 2, 6, 1), Cavl(6, NULL, NULL, 0), Cavl(4, 5, 8, 1),
              Cavl(8, NULL, NULL, 0), Cavl(6, 7, 9, 0), Cavl(8, NULL, NULL, 0) >>
    /\ root = 4
    /\ mask = {removal_order[i] : i \in 1..Len(removal_order)}
    /\ ndebug \in BOOLEAN
    /\ status = "ok"
    /\ nops = 0
    /\ last = Last("none", 0, "null", NULL, FALSE, {})
    /\ stale = FALSE
    /\ rootB = NULL
    /\ maskB = {}

\* The caller removes the next node of removal_order.
RemoveNext ==
    /\ status = "ok"
    /\ nops < Len(removal_order)
    /\ \E key \in {removal_order[nops + 1]} :
       \E res \in {cavlRemove(t, root, TRUE, key, ndebug)} :
           /\ status' = res.st
           /\ t' = IF res.st = "ok" THEN res.h ELSE t
           /\ root' = IF res.st = "ok" THEN res.rt ELSE root
           /\ mask' = IF res.st = "ok" THEN mask \ {key} ELSE mask
           /\ last' = Last("remove", key, "null", NULL, FALSE, res.af)
    /\ nops' = nops + 1
    /\ stale' = FALSE
    /\ UNCHANGED <<ndebug, rootB, maskB>>

NextS4 ==
    \/ RemoveNext
    \/ \E key \in DOMAIN t : Search(key, "null")
    \/ \E maximum \in 0..1 : Extremum(maximum)

SpecS4 == InitS4 /\ [][NextS4]_vars

----------------------------------------------------------------------------
\* What the unit tests compute from the root pointer to validate a tree.

\* The nodes reachable from n through lr links.
RECURSIVE ReachFrom(_, _, _)
ReachFrom(h, frontier, acc) ==
    IF frontier = {} THEN acc
    ELSE LET n  == CHOOSE x \in frontier : TRUE
             ch == {h[n].lr[0], h[n].lr[1]} \ ({NULL} \cup acc \cup {n})
         IN  ReachFrom(h, (frontier \ {n}) \cup ch, acc \cup {n})

Reach(h, rt) == IF rt = NULL THEN {} ELSE ReachFrom(h, {rt}, {})

\* traverse<Ascending>: the nodes in the order the recursive walk visits them.
\* A node met again on the way down from itself (the walk of the tests would
\* not end) shows as NULL in the result.
RECURSIVE Traverse(_, _, _, _)
Traverse(h, n, ascending, path) ==
    IF n = NULL THEN << >>
    ELSE IF n \in path THEN << NULL >>
    ELSE Traverse(h, h[n].lr[Not(ascending)], ascending, path \cup {n})
         \o << n >>
         \o Traverse(h, h[n].lr[ascending], ascending, path \cup {n})

\* getHeight: 0 for NULL, else one more than the taller child.
\* A node met again on the way down from itself counts as an endless height.
RECURSIVE getHeight(_, _, _)
getHeight(h, n, path) ==
    IF n = NULL THEN 0
    ELSE IF n \in path THEN 2 * NumKeys
    ELSE LET hl == getHeight(h, h[n].lr[0], path \cup {n})
             hr == getHeight(h, h[n].lr[1], path \cup {n})
         IN  1 + (IF hl > hr THEN hl ELSE hr)

\* findBrokenAncestry(root) returns NULL.
AncestryOk(h, rt) ==
    /\ (rt # NULL) => (h[rt].up = NULL)
    /\ \A n \in Reach(h, rt) : \A s \in 0..1 :
          (h[n].lr[s] # NULL) => (h[h[n].lr[s]].up = n)

\* findBrokenBalanceFactor(root) returns NULL.
BalanceFactorsOk(h, rt) ==
    \A n \in Reach(h, rt) :
        h[n].bf = getHeight(h, h[n].lr[1], {n}) - getHeight(h, h[n].lr[0], {n})

\* checkAscension: the walk's keys strictly increase (or decrease, for the reverse walk).
StrictlyIncreasing(seq) == \A i \in 1..(Len(seq) - 1) : seq[i] < seq[i + 1]
StrictlyDecreasing(seq) == \A i \in 1..(Len(seq) - 1) : seq[i] > seq[i + 1]
Range(seq) == {seq[i] : i \in 1..Len(seq)}

\* What the tests check of a tree after an operation on it: the nodes
\* read from the root pointer are the nodes m held, ancestry is consistent,
\* the keys strictly increase and every bf is the true height difference,
\* within -1..+1.
ValidTree(h, rt, m) ==
    /\ Reach(h, rt) = m
    /\ AncestryOk(h, rt)
    /\ StrictlyIncreasing(Traverse(h, rt, 1, {}))
    /\ BalanceFactorsOk(h, rt)
    /\ \A n \in m : h[n].bf \in -1..1

\* checkPostOrdering: the nodes in the order left subtree, right subtree, node.
RECURSIVE PostOrder(_, _, _)
PostOrder(h, n, path) ==
    IF n = NULL THEN << >>
    ELSE IF n \in path THEN << NULL >>
    ELSE PostOrder(h, h[n].lr[0], path \cup {n})
         \o PostOrder(h, h[n].lr[1], path \cup {n})
         \o << n >>

\* The iteration of the traversal tests: for (p = min; p != NULL; p = next_greater(p)),
\* as the list of the nodes visited.  A node visited twice (the loop of the
\* tests would not end) shows as NULL in the result.
RECURSIVE SuccessorWalk(_, _, _)
SuccessorWalk(h, p, seen) ==
    IF p = NULL THEN << >>
    ELSE IF p \in seen THEN << NULL >>
    ELSE << p >> \o SuccessorWalk(h, next_greater(h, p), seen \cup {p})

----------------------------------------------------------------------------
\* The library's internal functions called one at a time, as the unit tests
\* call them: the retracing loops of cavlSearch and cavlRemove run one pass per
\* step, so that every call of _cavlAdjustBalance is a step of its own, and
\* _cavlRotate is applied to the nodes of a tree directly.

\* What the last step was: the function called (op), the node and the flag
\* passed (arg, flag), the node returned (out), the assertions that evaluated
\* to false (af), the loop that is under way ("growth", "shrink" or "none";
\* "rotated" after a direct rotation), that loop's variables c, p and r, and
\* how far the node returned has come up (rot): for _cavlAdjustBalance 0 when
\* x itself is returned, 1 for a child of x and 2 for a grandchild; for
\* _cavlRetraceOnGrowth 1 when a node other than the old root is returned;
\* and whether the tree passed the tests' checks (pre) when the call of
\* cavlSearch or cavlRemove that the step belongs to began.
Step(op, arg, flag, out, af, pending, c, p, r, rot, pre) ==
    [op |-> op, arg |-> arg, flag |-> flag, out |-> out, af |-> af,
     pending |-> pending, c |-> c, p |-> p, r |-> r, rot |-> rot, pre |-> pre]

\* The rot field for a call of _cavlAdjustBalance(x, ...) in heap h that returned out.
Levels(h, x, out) ==
    IF (out = NULL) \/ (out = x) THEN 0
    ELSE IF out \in {h[x].lr[0], h[x].lr[1]} THEN 1 ELSE 2

InitUnit ==
    /\ t = [n \in 1..UnitKeys |-> Cavl(NULL, NULL, NULL, 0)]
    /\ root = NULL
    /\ mask = {}
    /\ ndebug \in BOOLEAN
    /\ status = "ok"
    /\ nops = 0
    /\ last = Step("none", NULL, 0, NULL, {}, "none", NULL, NULL, 0, 0, TRUE)
    /\ stale = FALSE
    /\ rootB = NULL
    /\ maskB = {}

\* The caller inserts a node with cavlSearch.
InsertWhole(key) ==
    /\ status = "ok"
    /\ last.pending = "none"
    /\ key \notin mask
    /\ \E res \in {cavlSearch(t, root, TRUE, key, TRUE, "make", ndebug)} :
           /\ status' = res.st
           /\ t' = IF res.st = "ok" THEN res.h ELSE t
           /\ root' = IF res.st = "ok" THEN res.rt ELSE root
           /\ mask' = IF res.st = "ok" THEN mask \cup {key} ELSE mask
           /\ last' = Step("insert", key, 0, res.out, res.af, "none", NULL, NULL, 0, 0,
                           ValidTree(t, root, mask))
    /\ UNCHANGED <<ndebug, nops, stale, rootB, maskB>>

\* The stores of cavlSearch that put the new node out into the slot n below up.
SearchLink(h, rt, out, up, n) ==
    [h  |-> [(IF n.node = NULL THEN h ELSE [h EXCEPT ![n.node].lr[n.side] = out])
                EXCEPT ![out] = Cavl(up, NULL, NULL, 0)],
     rt |-> IF n.node = NULL THEN out ELSE rt]

\* cavlSearch up to its call of _cavlRetraceOnGrowth: the descent and the
\* linking of the new node.  In an empty tree the retracing loop has nothing
\* to do and the node is the root.
Link(key) ==
    /\ status = "ok"
    /\ last.pending = "none"
    /\ key \notin mask
    /\ \E w \in {SearchLoop(t, root, key, root, Slot(NULL, 0), {}, ndebug, {})} :
           /\ w.st = "ok"
           /\ w.out = NULL
           /\ \E lk \in {SearchLink(t, root, key, w.up, w.n)} :
                  /\ t' = lk.h
                  /\ root' = lk.rt
           /\ last' = Step("link", key, 0, NULL, w.af,
                           IF w.up = NULL THEN "none" ELSE "growth",
                           IF w.up = NULL THEN NULL ELSE key, w.up, 0, 0,
                           ValidTree(t, root, mask))
    /\ mask' = mask \cup {key}
    /\ UNCHANGED <<ndebug, status, nops, stale, rootB, maskB>>

\* The rest of _cavlRetraceOnGrowth(added) in one piece, and the store of its
\* result in *root.
RetraceOnGrowth ==
    /\ status = "ok"
    /\ last.op = "link"
    /\ last.pending = "growth"
    /\ \E rg \in {_cavlRetraceOnGrowth(t, last.arg, ndebug)} :
           /\ status' = rg.st
           /\ t' = IF rg.st = "ok" THEN rg.h ELSE t
           /\ root' = IF (rg.st = "ok") /\ (rg.out # NULL) THEN rg.out ELSE root
           /\ last' = Step("retrace", last.arg, 0, rg.out, rg.af, "none", NULL, NULL, 0,
                           B2I(rg.out \notin {NULL, root}), last.pre)
    /\ UNCHANGED <<mask, ndebug, nops, stale, rootB, maskB>>

\* One pass of the loop of _cavlRetraceOnGrowth; when the loop is left, the
\* function returns c or NULL and cavlSearch stores a node returned in *root.
GrowthIteration ==
    /\ status = "ok"
    /\ last.pending = "growth"
    /\ \E r \in {B2I(t[last.p].lr[1] = last.c)} :
       \E ab \in {IF Passes(t[last.p].lr[r] = last.c, ndebug)
                  THEN WithAf(_cavlAdjustBalance(t, last.p, r = 1, ndebug),
                              Failed(t[last.p].lr[r] = last.c, 185))
                  ELSE Res(t, NULL, NULL, "abort", {185})} :
       \E p2 \in {IF ab.st = "ok" THEN ab.h[ab.out].up ELSE NULL} :
       \E more \in {(ab.st = "ok") /\ (ab.h[ab.out].bf # 0) /\ (p2 # NULL)} :
           /\ status' = ab.st
           /\ t' = IF ab.st = "ok" THEN ab.h ELSE t
           /\ root' = IF (ab.st = "ok") /\ (p2 = NULL) THEN ab.out ELSE root
           /\ last' = Step("adjust", last.p, r, ab.out, ab.af,
                           IF more THEN "growth" ELSE "none",
                           IF more THEN ab.out ELSE NULL,
                           IF more THEN p2 ELSE NULL, 0,
                           Levels(t, last.p, ab.out), last.pre)
    /\ UNCHANGED <<mask, ndebug, nops, stale, rootB, maskB>>

\* cavlRemove up to its retracing loop: the assertions and the first step.
Unlink(key) ==
    /\ status = "ok"
    /\ last.pending = "none"
    /\ key \in mask
    /\ nops < MaxUnitOps
    /\ \E a245 \in {(root # NULL) /\ ((t[key].up # NULL) \/ (key = root))} :
       \E tp \in {IF ~Passes(a245, ndebug)
                  THEN Res(t, root, NULL, "abort", {245}) @@ [r |-> 0]
                  ELSE IF (t[key].lr[0] # NULL) /\ (t[key].lr[1] # NULL)
                  THEN RemoveTwoChildren(t, root, key, ndebug, Failed(a245, 245))
                  ELSE RemoveOneChild(t, root, key, Failed(a245, 245))} :
           /\ status' = tp.st
           /\ t' = IF tp.st = "ok" THEN tp.h ELSE t
           /\ root' = IF tp.st = "ok" THEN tp.rt ELSE root
           /\ mask' = IF tp.st = "ok" THEN mask \ {key} ELSE mask
           /\ last' = Step("unlink", key, 0, NULL, tp.af,
                           IF (tp.st = "ok") /\ (tp.out # NULL) THEN "shrink" ELSE "none",
                           NULL, tp.out,
                           IF (tp.st = "ok") /\ (tp.out # NULL) THEN tp.r ELSE 0, 0,
                           ValidTree(t, root, mask))
    /\ nops' = nops + 1
    /\ UNCHANGED <<ndebug, stale, rootB, maskB>>

\* One pass of the retracing loop of cavlRemove; when the loop is left at the
\* top of the tree, cavlRemove stores c in *root.
ShrinkIteration ==
    /\ status = "ok"
    /\ last.pending = "shrink"
    /\ \E ab \in {_cavlAdjustBalance(t, last.p, last.r = 0, ndebug)} :
       \E p2 \in {IF ab.st = "ok" THEN ab.h[ab.out].up ELSE NULL} :
       \E more \in {(ab.st = "ok") /\ (ab.h[ab.out].bf = 0) /\ (p2 # NULL)} :
           /\ status' = ab.st
           /\ t' = IF ab.st = "ok" THEN ab.h ELSE t
           /\ root' = IF (ab.st = "ok") /\ (p2 = NULL) THEN ab.out ELSE root
           /\ last' = Step("adjust", last.p, B2I(last.r = 0), ab.out, ab.af,
                           IF more THEN "shrink" ELSE "none",
                           NULL,
                           IF more THEN p2 ELSE NULL,
                           IF more THEN B2I(ab.h[p2].lr[1] = ab.out) ELSE 0,
                           Levels(t, last.p, ab.out), last.pre)
    /\ UNCHANGED <<mask, ndebug, nops, stale, rootB, maskB>>

\* _cavlRotate(x, r) on a node of the tree whose !r child exists, in a tree
\* built as the rotation test builds its own: findBrokenAncestry returns NULL
\* for it and the in-order walk meets every node once, in its place.  The
\* caller keeps the returned node as the root when it has no parent.
Rotate(x, r) ==
    /\ status = "ok"
    /\ last.pending \in {"none", "rotated"}
    /\ x \in Reach(t, root)
    /\ AncestryOk(t, root)
    /\ StrictlyIncreasing(Traverse(t, root, 1, {}))
    /\ t[x].lr[Not(r)] # NULL
    /\ nops < MaxUnitOps
    /\ \E ro \in {_cavlRotate(t, x, r, ndebug)} :
           /\ status' = ro.st
           /\ t' = IF ro.st = "ok" THEN ro.h ELSE t
           /\ root' = IF (ro.st = "ok") /\ (ro.h[ro.out].up = NULL) THEN ro.out ELSE root
           /\ last' = Step("rotate", x, r, ro.out, ro.af, "rotated", NULL, NULL, 0, 1,
                           ValidTree(t, root, mask))
    /\ nops' = nops + 1
    /\ UNCHANGED <<mask, ndebug, stale, rootB, maskB>>

NextUnit ==
    \/ \E key \in DOMAIN t : InsertWhole(key)
    \/ \E key \in DOMAIN t : Link(key)
    \/ RetraceOnGrowth
    \/ GrowthIteration
    \/ \E key \in DOMAIN t : Unlink(key)
    \/ ShrinkIteration
    \/ \E x \in DOMAIN t, r \in 0..1 : Rotate(x, r)

SpecUnit == InitUnit /\ [][NextUnit]_vars

----------------------------------------------------------------------------
\* C1 - Ancestry consistency: whenever a call has returned, every non-NULL
\* child c of every node n reachable from root has c.up = n, and the root
\* node's up is NULL.
C1_Ancestry == (status = "ok") => AncestryOk(t, root)

\* C2 - Balance factor correctness: whenever a call has returned, every node
\* reachable from root has bf = height(right subtree) - height(left subtree).
C2_BalanceFactor == (status = "ok") => BalanceFactorsOk(t, root)

\* C3 - BST ordering: whenever a call has returned, the in-order walk from
\* root visits strictly increasing keys, the reverse walk strictly decreasing
\* keys, and no key is visited twice.
C3_Ordering ==
    (status = "ok") =>
        LET fwd == Traverse(t, root, 1, {})
            bwd == Traverse(t, root, 0, {})
        IN  /\ NULL \notin Range(fwd)
            /\ StrictlyIncreasing(fwd)
            /\ StrictlyDecreasing(bwd)
            /\ Cardinality(Range(fwd)) = Len(fwd)

\* C4 - AVL bound: whenever a public call (cavlSearch, cavlRemove,
\* cavlFindExtremum) has returned, every node reachable from root has its bf
\* field in {-1, 0, +1}.
C4_AvlBound == (status = "ok") => \A n \in Reach(t, root) : t[n].bf \in {-1, 0, 1}

\* A removal has just rebalanced a tree of at least four nodes by a rotation
\* that left both a left-heavy and a right-heavy node in it.
C4_Witness ==
    /\ status = "ok"
    /\ last.op = "remove"
    /\ Cardinality(Reach(t, root)) >= 4
    /\ \E a, b \in Reach(t, root) : (t[a].bf = -1) /\ (t[b].bf = 1)

\* C5 - Insert/remove against a shadow set: whenever a call has returned, the
\* keys the in-order walk from root visits are exactly the keys inserted and
\* not removed, and the walk's length is the size of that set.
C5_ShadowSet ==
    (status = "ok") =>
        LET fwd == Traverse(t, root, 1, {})
        IN  (Range(fwd) = mask) /\ (Len(fwd) = Cardinality(mask))

\* C6 - Detachment on remove: whenever cavlRemove has just returned, the
\* removed node has up = NULL, lr[0] = NULL, lr[1] = NULL and bf = 0.
C6_Detached ==
    ((status = "ok") /\ (last.op = "remove")) => (t[last.arg] = Cavl(NULL, NULL, NULL, 0))

\* C7 - No dangling references: whenever cavlRemove has just returned, neither
\* root nor the up, lr[0] or lr[1] field of any other node that is in the tree
\* (inserted and not removed, or reachable from root) refers to the removed node.
C7_NoDangling ==
    ((status = "ok") /\ (last.op = "remove")) =>
        /\ root # last.arg
        /\ \A n \in (mask \cup Reach(t, root)) \ {last.arg} :
              /\ t[n].up # last.arg
              /\ t[n].lr[0] # last.arg
              /\ t[n].lr[1] # last.arg

\* C8 - Root-reference consistency: whenever a call has returned, root is NULL
\* exactly when no key is in the tree, and otherwise points to a node whose up
\* is NULL and from which every key in the tree is reachable.
C8_RootConsistency ==
    (status = "ok") =>
        /\ (root = NULL) <=> (mask = {})
        /\ (root # NULL) => ((t[root].up = NULL) /\ (mask \subseteq Reach(t, root)))

\* C9 - Root replacement on remove: a cavlRemove of the node root points to
\* leaves root NULL if that was the only node, and otherwise pointing to another
\* node without parent that is the top of the remaining tree (the surviving
\* child when the removed root had one child, the in-order successor when it
\* had two and no rotation moved the successor down); root never still points
\* to the removed node.
C9_RootReplacement ==
    [][ ((status' = "ok") /\ (last'.op = "remove") /\ (nops' = nops + 1) /\ (root = last'.arg)) =>
          LET node == last'.arg
              l    == t[node].lr[0]
              r    == t[node].lr[1]
          IN  /\ root' # node
              /\ (mask = {node}) => (root' = NULL)
              /\ (mask # {node}) =>
                    /\ root' \in mask \ {node}
                    /\ t'[root'].up = NULL
                    /\ (mask \ {node}) \subseteq Reach(t', root')
              /\ ((l = NULL) /\ (r # NULL)) => (root' = r)
              /\ ((l # NULL) /\ (r = NULL)) => (root' = l)
              /\ ((l # NULL) /\ (r # NULL)) =>
                    LET re == cavlFindExtremum(t, r, 0).out
                    IN  (root' = re) \/ (t'[re].up # NULL)
      ]_vars

\* C10 - Insert idempotence under equal key: a cavlSearch for the key of a node
\* that is in the tree (inserted and not removed) returns that node, does not
\* invoke the factory and leaves root and every node's up, lr and bf as they
\* were; the same call made again returns the same node.
C10_InsertIdempotent ==
    [][ ((status' = "ok") /\ (last'.op = "search") /\ (last'.arg \in mask)) =>
          /\ last'.out = last'.arg
          /\ ~last'.fc
          /\ t' = t
          /\ root' = root
          /\ cavlSearch(t', root', TRUE, last'.arg, TRUE, last'.kind, ndebug).out = last'.out
      ]_vars

\* C11 - Factory refusal: a cavlSearch for a key that is not in the tree
\* (not inserted, or removed since), made with a NULL factory or with a
\* factory that returns NULL, returns NULL and leaves root and every node's
\* up, lr and bf as they were.
C11_FactoryRefusal ==
    [][ ((status' = "ok") /\ (last'.op = "search") /\ (last'.kind \in {"null", "refuse"})
         /\ (last'.arg \notin mask)) =>
          /\ last'.out = NULL
          /\ t' = t
          /\ root' = root
      ]_vars

\* C12 - Absent-input rejection: cavlSearch called with a NULL root argument or
\* a NULL predicate returns NULL, fails no assertion of the descent, does not
\* invoke the factory and changes nothing; cavlRemove called with a NULL root
\* argument or a NULL node changes nothing.  Both always return.
C12_AbsentInput ==
    [][ (last'.op \in {"search_absent", "remove_absent"}) =>
          /\ status' = "ok"
          /\ last'.out = NULL
          /\ ~last'.fc
          /\ last'.af = {}
          /\ t' = t
          /\ root' = root
          /\ mask' = mask
      ]_vars

\* A search with a NULL predicate for a key that is in a tree of three nodes
\* has returned NULL although a factory was passed.
C12_Witness ==
    /\ last.op = "search_absent"
    /\ last.kind = "make"
    /\ last.arg \in mask
    /\ last.arg \in Reach(t, root)
    /\ Cardinality(mask) >= 3
    /\ last.out = NULL

\* C13 - Lookup correctness: a cavlSearch with the three-way predicate for a
\* key and a NULL factory returns the node holding the key when the key is in
\* the tree (inserted and not removed) and NULL when it is not.
C13_Lookup ==
    [][ ((status' = "ok") /\ (last'.op = "search") /\ (last'.kind = "null")) =>
          (last'.out = IF last'.arg \in mask THEN last'.arg ELSE NULL)
      ]_vars

\* C14 - Node initialisation on insert: a cavlSearch that inserts the node its
\* factory returns ends exactly as the same call would with that node zeroed
\* beforehand: same return value, same failed assertions, same way of ending,
\* and on return the same root and the same up, lr and bf in every node.
C14_NodeInitialisation ==
    [][ ((last'.op = "search") /\ (last'.kind = "make") /\ last'.fc) =>
          LET key    == last'.arg
              zeroed == [t EXCEPT ![key] = Cavl(NULL, NULL, NULL, 0)]
              z      == cavlSearch(zeroed, root, TRUE, key, TRUE, "make", ndebug)
          IN  /\ z.st = status'
              /\ z.out = last'.out
              /\ z.af = last'.af
              /\ (status' = "ok") => ((z.h = t') /\ (z.rt = root'))
      ]_vars

\* A node that carried links or a balance factor from an earlier use has just
\* been inserted again, below another node.
C14_Witness ==
    /\ status = "ok"
    /\ stale
    /\ last.op = "search"
    /\ last.out = last.arg
    /\ t[last.arg].up # NULL
    /\ t[last.arg] = Cavl(t[last.arg].up, NULL, NULL, 0)

\* C15 - Independent trees share nothing: with the nodes of tree A and tree B
\* disjoint, a cavlSearch or cavlRemove on A that returns leaves B's root
\* pointer and the up, lr and bf of every node held in B as they were.
C15_IndependentTrees ==
    [][ ((status' = "ok") /\ (last'.op \in {"search", "remove"})) =>
          /\ rootB' = rootB
          /\ \A n \in maskB : t'[n] = t[n]
      ]_vars

\* C16 - Extremum: a cavlFindExtremum(root, maximum) that returns changes
\* nothing, returns NULL exactly when root is NULL, and otherwise returns the
\* node with the greatest key among the nodes reachable from root when maximum
\* is true and the one with the smallest key when it is false.
C16_Extremum ==
    [][ ((status' = "ok") /\ (last'.op = "extremum")) =>
          /\ t' = t
          /\ root' = root
          /\ (last'.out = NULL) <=> (root = NULL)
          /\ (root # NULL) =>
                /\ last'.out \in Reach(t, root)
                /\ \A n \in Reach(t, root) :
                      IF last'.arg = 1 THEN n <= last'.out ELSE n >= last'.out
      ]_vars

\* C17 - Height bound: whenever a call has returned, the height of the tree
\* from root and the number n of nodes reachable from root satisfy
\* 2^height <= (n + 1)^2, that is height <= 2 * log2(n + 1).
C17_HeightBound ==
    (status = "ok") =>
        2 ^ getHeight(t, root, {}) <= (Cardinality(Reach(t, root)) + 1) ^ 2

\* C18 - Scenario S1: every insertion of insertion_order returns and leaves a
\* tree with consistent ancestry, correct balance factors and an in-order walk
\* that is the sorted list of the keys inserted so far; after the last one the
\* tree is the perfect tree of 31 nodes: root 16, height 5, every bf 0, in-order
\* walk 1..31, the post-order walk of the test, minimum 1 and maximum 31.
C18_ScenarioS1 ==
    /\ status = "ok"
    /\ AncestryOk(t, root)
    /\ BalanceFactorsOk(t, root)
    /\ StrictlyIncreasing(Traverse(t, root, 1, {}))
    /\ Range(Traverse(t, root, 1, {})) = {insertion_order[i] : i \in 1..nops}
    /\ (nops = Len(insertion_order)) =>
          /\ root = 16
          /\ getHeight(t, root, {}) = 5
          /\ \A n \in DOMAIN t : t[n].bf = 0
          /\ Traverse(t, root, 1, {}) = [i \in 1..31 |-> i]
          /\ PostOrder(t, root, {}) =
                << 1, 3, 2, 5, 7, 6, 4, 9, 11, 10, 13, 15, 14, 12, 8, 17,
                   19, 18, 21, 23, 22, 20, 25, 27, 26, 29, 31, 30, 28, 24, 16 >>
          /\ cavlFindExtremum(t, root, 0).out = 1
          /\ cavlFindExtremum(t, root, 1).out = 31
          /\ (last.op = "extremum") => (last.out = IF last.arg = 1 THEN 31 ELSE 1)

\* The last node of insertion_order has been inserted and the maximum queried.
C18_Witness ==
    /\ nops = Len(insertion_order)
    /\ Cardinality(Reach(t, root)) = 31
    /\ last.op = "extremum"
    /\ last.arg = 1
    /\ last.out = 31

\* C19 - Scenario S4: in the removal test, removing 9 and 8 leaves the tree
\* 4{2{1,3},6{5,7}}; then remove(4) returns with root 5, children {2, 6}, bf 0,
\* node 2's and node 6's up 5, node 6 with children {NULL, 7} and bf +1; then
\* remove(5) returns with root 6, children {2, 7} and bf -1; then remove(6)
\* returns with root 2, children {1, 7}, bf +1, and node 7 with left child 3
\* and bf -1.
C19_ScenarioS4 ==
    (last.op = "remove") =>
        /\ (nops = 2) =>
              /\ status = "ok"
              /\ root = 4
              /\ t[4] = Cavl(NULL, 2, 6, 0)
              /\ t[2] = Cavl(4, 1, 3, 0)
              /\ t[6] = Cavl(4, 5, 7, 0)
        /\ (nops = 3) =>
              /\ status = "ok"
              /\ root = 5
              /\ t[5] = Cavl(NULL, 2, 6, 0)
              /\ t[2].up = 5
              /\ t[6] = Cavl(5, NULL, 7, 1)
        /\ (nops = 4) =>
              /\ status = "ok"
              /\ root = 6
              /\ t[6] = Cavl(NULL, 2, 7, -1)
        /\ (nops = 5) =>
              /\ status = "ok"
              /\ root = 2
              /\ t[2] = Cavl(NULL, 1, 7, 1)
              /\ t[7].lr[0] = 3
              /\ t[7].bf = -1

\* C20 - In-order successor iteration: in a tree with consistent ancestry,
\* correct balance factors and a strictly increasing in-order walk, starting
\* at cavlFindExtremum(root, false) and repeatedly taking next_greater visits
\* exactly the nodes of the in-order walk, in that order, and ends with NULL
\* after the maximum; a single next_greater(n) is the least node above n in
\* the tree, or NULL when n is the maximum.
C20_SuccessorIteration ==
    (/\ status = "ok"
     /\ AncestryOk(t, root)
     /\ BalanceFactorsOk(t, root)
     /\ StrictlyIncreasing(Traverse(t, root, 1, {})))
    =>
        /\ SuccessorWalk(t, cavlFindExtremum(t, root, 0).out, {}) = Traverse(t, root, 1, {})
        /\ StrictlyIncreasing(SuccessorWalk(t, cavlFindExtremum(t, root, 0).out, {}))
        /\ Range(SuccessorWalk(t, cavlFindExtremum(t, root, 0).out, {})) = Reach(t, root)
        /\ (root # NULL) => (next_greater(t, cavlFindExtremum(t, root, 1).out) = NULL)
        /\ (last.op = "next_greater") =>
              (last.out = IF \E m \in Reach(t, root) : m > last.arg
                          THEN CHOOSE m \in Reach(t, root) :
                                  /\ m > last.arg
                                  /\ \A k \in Reach(t, root) : (k > last.arg) => (m <= k)
                          ELSE NULL)

\* In the full tree of 31 nodes the successor of 15 has been asked for: it is
\* the root 16, four levels up; the successor of 16 is 17, four levels down.
C20_Witness ==
    /\ status = "ok"
    /\ nops = Len(insertion_order)
    /\ Cardinality(Reach(t, root)) = 31
    /\ last.op = "next_greater"
    /\ last.arg = 15
    /\ last.out = 16
    /\ t[15].lr[1] = NULL
    /\ next_greater(t, 16) = 17
    /\ Len(SuccessorWalk(t, cavlFindExtremum(t, root, 0).out, {})) = 31

\* C21 - Remove, two children, successor not the immediate right child: when
\* cavlRemove(node) has returned for a node with two children whose successor
\* s = min(node.lr[1]) hangs as the left child below p # node, then at the start
\* of the shrink retrace p.lr[0] is s's former right child and that child's up
\* is p, s has node's former up and stands in node's slot (or is *root), s's
\* children are node's former children, both with up = s, and the retrace
\* starts at (p, side 0).
C21_RemoveDeepSuccessor ==
    [][ \A node \in Nodes :
          \A s \in {cavlFindExtremum(t, t[node].lr[1], 0).out} :
            (/\ last'.op = "remove"
             /\ last'.arg = node
             /\ status' = "ok"
             /\ t[node].lr[0] # NULL
             /\ t[node].lr[1] # NULL
             /\ s # NULL
             /\ t[s].up # NULL
             /\ t[s].up # node
             /\ t[t[s].up].lr[0] = s)
            =>
             \A tp \in {RemoveTwoChildren(t, root, node, ndebug, {})} :
              /\ tp.st = "ok"
              /\ tp.h[t[s].up].lr[0] = t[s].lr[1]
              /\ (t[s].lr[1] # NULL) => (tp.h[t[s].lr[1]].up = t[s].up)
              /\ tp.h[s].up = t[node].up
              /\ IF t[node].up = NULL THEN tp.rt = s
                 ELSE /\ tp.rt = root
                      /\ \A side \in 0..1 :
                            (t[t[node].up].lr[side] = node) => (tp.h[t[node].up].lr[side] = s)
              /\ tp.h[s].lr = t[node].lr
              /\ tp.h[t[node].lr[0]].up = s
              /\ tp.h[t[node].lr[1]].up = s
              /\ tp.out = t[s].up
              /\ tp.r = 0
      ]_vars

\* C22 - Remove, two children, successor is the immediate right child: when
\* cavlRemove(node) is called for a node with two children whose right child s
\* has no left child, the call returns with no assertion failed, and at the
\* start of the shrink retrace s stands in node's slot, s.lr[0] is node's
\* former left child whose up is s, s.lr[1] is as before, and the retrace
\* starts at (s, side 1).
C22_RemoveImmediateSuccessor ==
    [][ \A node \in Nodes :
            (/\ last'.op = "remove"
             /\ last'.arg = node
             /\ t[node].lr[0] # NULL
             /\ t[node].lr[1] # NULL
             /\ t[t[node].lr[1]].lr[0] = NULL)
            =>
             \A s \in {t[node].lr[1]} :
             \A tp \in {RemoveTwoChildren(t, root, node, ndebug, {})} :
              /\ status' = "ok"
              /\ last'.af = {}
              /\ tp.st = "ok"
              /\ tp.h[s].up = t[node].up
              /\ IF t[node].up = NULL THEN tp.rt = s
                 ELSE \A side \in 0..1 :
                         (t[t[node].up].lr[side] = node) => (tp.h[t[node].up].lr[side] = s)
              /\ tp.h[s].lr[0] = t[node].lr[0]
              /\ tp.h[t[node].lr[0]].up = s
              /\ tp.h[s].lr[1] = t[s].lr[1]
              /\ tp.out = s
              /\ tp.r = 1
      ]_vars

\* C23 - Successor inherits the balance factor: when cavlRemove(node) has
\* returned for a node with two children, the successor s = min(node.lr[1])
\* that took node's place has node's former bf when the shrink retrace starts.
C23_SuccessorInheritsBf ==
    [][ \A node \in Nodes :
            (/\ last'.op = "remove"
             /\ last'.arg = node
             /\ status' = "ok"
             /\ t[node].lr[0] # NULL
             /\ t[node].lr[1] # NULL)
            =>
             \A s \in {cavlFindExtremum(t, t[node].lr[1], 0).out} :
             \A tp \in {RemoveTwoChildren(t, root, node, ndebug, {})} :
              /\ tp.st = "ok"
              /\ tp.h[s].bf = t[node].bf
      ]_vars

C25_RotationContract ==
    [][ ((last'.op = "rotate") /\ (status' = "ok")) =>
          \A x \in {last'.arg} : \A r \in {last'.flag} : \A z \in {t[last'.arg].lr[Not(last'.flag)]} :
            /\ last'.out = z
            /\ t'[z].lr[r] = x
            /\ t'[x].lr[Not(r)] = t[z].lr[r]
            /\ t'[z].up = t[x].up
            /\ (t[x].up # NULL) =>
                  \A side \in 0..1 :
                     t'[t[x].up].lr[side] = IF t[t[x].up].lr[side] = x THEN z
                                           ELSE t[t[x].up].lr[side]
            /\ t'[x].up = z
            /\ (t[z].lr[r] # NULL) => (t'[t[z].lr[r]].up = x)
            /\ t'[x].lr[r] = t[x].lr[r]
            /\ t'[z].lr[Not(r)] = t[z].lr[Not(r)]
            /\ \A n \in Reach(t', z) : \A side \in 0..1 :
                  (t'[n].lr[side] # NULL) => (t'[t'[n].lr[side]].up = n)
            /\ Reach(t', z) = Reach(t, x)
            /\ \A n \in DOMAIN t : t'[n].bf = t[n].bf
      ]_vars

\* A rotation has been made of a node that had a parent and whose rising
\* child had a child on the inner side: all four links were restitched.
C25_Witness ==
    /\ status = "ok"
    /\ last.op = "rotate"
    /\ last.out # NULL
    /\ t[last.out].up # NULL
    /\ t[last.out].lr[last.flag] = last.arg
    /\ t[last.arg].lr[Not(last.flag)] # NULL
    /\ t[last.arg].lr[last.flag] # NULL
    /\ t[last.out].lr[Not(last.flag)] # NULL

\* C26 - Rotation round trip: after z = _cavlRotate(x, r), the call
\* _cavlRotate(z, !r) returns x with no assertion failed and leaves every
\* field of every node as it was before the first rotation.
C26_RotationRoundTrip ==
    [][ ((last'.op = "rotate") /\ (status' = "ok")) =>
          \A back \in {_cavlRotate(t', last'.out, Not(last'.flag), ndebug)} :
            /\ back.st = "ok"
            /\ back.af = {}
            /\ back.out = last'.arg
            /\ back.h = t
      ]_vars

\* Two rotations have been made in a row and the second has brought back a
\* tree with correct balance factors: the node rotated last is a child again,
\* below the node returned, and has a child on the inner side that changed
\* parents twice.
C26_Witness ==
    /\ status = "ok"
    /\ last.op = "rotate"
    /\ nops = 2
    /\ Cardinality(mask) = UnitKeys
    /\ AncestryOk(t, root)
    /\ BalanceFactorsOk(t, root)
    /\ t[last.out].lr[last.flag] = last.arg
    /\ t[last.arg].lr[Not(last.flag)] # NULL

\* C27 - Rotation preserves order: when _cavlRotate(x, r) or
\* _cavlAdjustBalance(x, increment) has returned for a node x whose subtree
\* has a strictly increasing in-order walk, the in-order walk of the subtree
\* below the node returned is the walk of x's subtree before the call.
C27_RotationPreservesOrder ==
    [][ (/\ last'.op \in {"rotate", "adjust"}
         /\ status' = "ok"
         /\ StrictlyIncreasing(Traverse(t, last'.arg, 1, {})))
        => (Traverse(t', last'.out, 1, {}) = Traverse(t, last'.arg, 1, {}))
      ]_vars

\* C28 - Balance adjustment without rotation: when _cavlAdjustBalance(x,
\* increment) has been called with x.bf + (increment ? +1 : -1) within -1..+1,
\* it returns x with that value stored in x.bf, and no up or lr link of any
\* node and no other node's bf has changed.
C28_AdjustWithoutRotation ==
    [][ \A nb \in {t[last'.arg].bf + (IF last'.flag = 1 THEN 1 ELSE -1)} :
          (/\ last'.op = "adjust"
           /\ nb \in -1..1)
          =>
            /\ status' = "ok"
            /\ 119 \notin last'.af
            /\ last'.out = last'.arg
            /\ t' = [t EXCEPT ![last'.arg].bf = nb]
            /\ \A n \in DOMAIN t :
                  /\ t'[n].up = t[n].up
                  /\ t'[n].lr = t[n].lr
                  /\ (n # last'.arg) => (t'[n].bf = t[n].bf)
      ]_vars

\* _cavlAdjustBalance has returned the node it was given, an inner node whose
\* bf it has moved away from 0, and the retracing loop goes on above it.
C28_Witness ==
    /\ status = "ok"
    /\ last.op = "adjust"
    /\ last.rot = 0
    /\ last.out = last.arg
    /\ t[last.arg].bf = (IF last.flag = 1 THEN 1 ELSE -1)
    /\ last.pending = "growth"
    /\ last.p # NULL

\* C29 - Balance adjustment with rotation restores the invariant: when
\* _cavlAdjustBalance(x, increment) is called with every node below x having
\* its true height difference, within -1..+1, as bf, with x.bf = +-1 and the
\* true height difference at x being +-2 on that side, and increment pointing
\* to that side, then it returns with none of its assertions failed (the
\* assertion of the growth loop, line 185, is not its own); it returns the
\* heavy child z when z is heavy on the same side or balanced (one rotation)
\* and z's inner child y when z is heavy on the other side (two rotations);
\* afterwards every node of the returned subtree has its true height
\* difference, within -1..+1, as bf, and the subtree holds the same nodes.
C29_AdjustWithRotation ==
    [][ \A x \in {last'.arg} :
          (/\ last'.op = "adjust"
           /\ t[x].bf = (IF last'.flag = 1 THEN 1 ELSE -1)
           /\ getHeight(t, t[x].lr[1], {x}) - getHeight(t, t[x].lr[0], {x}) = 2 * t[x].bf
           /\ \A n \in Reach(t, x) \ {x} :
                 /\ t[n].bf \in -1..1
                 /\ t[n].bf = getHeight(t, t[n].lr[1], {n}) - getHeight(t, t[n].lr[0], {n}))
          =>
           \A z \in {t[x].lr[last'.flag]} :
            /\ status' = "ok"
            /\ last'.af \subseteq {185}
            /\ last'.out = IF t[z].bf * t[x].bf >= 0 THEN z ELSE t[z].lr[Not(last'.flag)]
            /\ last'.rot = IF t[z].bf * t[x].bf >= 0 THEN 1 ELSE 2
            /\ Reach(t', last'.out) = Reach(t, x)
            /\ t'[last'.out].up = t[x].up
            /\ \A n \in Reach(t', last'.out) :
                  /\ t'[n].bf \in -1..1
                  /\ t'[n].bf = getHeight(t', t'[n].lr[1], {n}) - getHeight(t', t'[n].lr[0], {n})
      ]_vars

\* The nodes met when walking up from n through up links, n included.
RECURSIVE Ancestors(_, _, _)
Ancestors(h, n, seen) ==
    IF (n = NULL) \/ (n \in seen) THEN seen
    ELSE Ancestors(h, h[n].up, seen \cup {n})

\* C30 - Retrace on growth, return value: when _cavlRetraceOnGrowth(added) has
\* returned for a node just linked into the tree, a node returned is on the
\* way up from added, has no parent and is the root of the whole tree: every
\* node that was read from the root pointer before the call, and added, is
\* below it (also when a rotation has just made it the root and its bf is
\* 0); when NULL is returned, the root pointer is as it was, with the whole
\* tree below it, and on the way up from added there is a node with a child
\* and a parent whose bf is 0, where the walk has stopped.
C30_RetraceReturnValue ==
    [][ \A added \in {last'.arg} :
          ((last'.op = "retrace") /\ (status' = "ok"))
          =>
            /\ IF last'.out # NULL
               THEN /\ t'[last'.out].up = NULL
                    /\ (Reach(t, root) \cup {added}) \subseteq Reach(t', last'.out)
                    /\ last'.out \in Ancestors(t', added, {})
                    /\ root' = last'.out
               ELSE /\ root' = root
                    /\ (Reach(t, root) \cup {added}) \subseteq Reach(t', root)
                    /\ \E a \in Ancestors(t', added, {}) :
                          /\ (t'[a].lr[0] # NULL) \/ (t'[a].lr[1] # NULL)
                          /\ t'[a].up # NULL
                          /\ t'[a].bf = 0
      ]_vars

\* C31 - Retrace on growth stops early: when a call of _cavlAdjustBalance made
\* by the growth loop has returned a node c whose bf is 0, the loop is left
\* with that call, the root pointer is changed only if c has no parent, and
\* every node above c has the bf, the up link and the lr links it had before
\* the call, except that the slot of c's parent that held x holds c when a
\* rotation has put c in x's place.
C31_GrowthStopsEarly ==
    [][ \A x \in {last'.arg} : \A c \in {last'.out} :
          (/\ last.pending = "growth"
           /\ last'.op = "adjust"
           /\ status' = "ok"
           /\ t'[c].bf = 0)
          =>
            /\ last'.pending = "none"
            /\ (t'[c].up # NULL) => (root' = root)
            /\ \A a \in Ancestors(t', c, {}) \ {c} :
                  /\ t'[a].bf = t[a].bf
                  /\ t'[a].up = t[a].up
                  /\ \A side \in 0..1 :
                        \/ t'[a].lr[side] = t[a].lr[side]
                        \/ /\ c # x
                           /\ a = t'[c].up
                           /\ t[a].lr[side] = x
                           /\ t'[a].lr[side] = c
      ]_vars

\* C32 - Retrace on shrink, stop rule: when cavlRemove(node) has been called
\* on a tree with consistent ancestry, strictly increasing keys and correct
\* balance factors within -1..+1, it returns; its retracing loop is left with
\* the last node c returned by _cavlAdjustBalance having a bf other than 0 or
\* no parent; and afterwards every node read from the root pointer has its
\* true height difference as bf.
C32_ShrinkStopRule ==
    [][ \A node \in Nodes :
            (/\ last'.op = "remove"
             /\ last'.arg = node
             /\ ValidTree(t, root, mask))
            =>
             \A tp \in {IF (t[node].lr[0] # NULL) /\ (t[node].lr[1] # NULL)
                        THEN RemoveTwoChildren(t, root, node, ndebug, {})
                        ELSE RemoveOneChild(t, root, node, {})} :
             \A lp \in {IF tp.st = "ok"
                        THEN ShrinkLoop(tp.h, NULL, tp.out, tp.r, {}, ndebug, {})
                        ELSE tp} :
              /\ status' = "ok"
              /\ lp.st = "ok"
              /\ (lp.out # NULL) => ((lp.h[lp.out].bf # 0) \/ (lp.h[lp.out].up = NULL))
              /\ BalanceFactorsOk(t', root')
      ]_vars

\* Whether the walk from n through up links ends at a node without parent.
RECURSIVE UpWalkEnds(_, _, _)
UpWalkEnds(h, n, seen) ==
    IF n = NULL THEN TRUE
    ELSE IF n \in seen THEN FALSE
    ELSE UpWalkEnds(h, h[n].up, seen \cup {n})

\* C33 - Termination: no call of cavlSearch, cavlRemove or cavlFindExtremum
\* runs for ever (no loop of theirs comes back to a state it has been in),
\* and whenever a call has returned, the up links followed from any node read
\* from the root pointer end at a node without parent.
C33_Termination ==
    /\ status # "hang"
    /\ (status = "ok") => \A n \in Reach(t, root) : UpWalkEnds(t, n, {})

\* C34 - Single rotation with a balanced child is removal only: when the
\* growth loop of a cavlSearch that began on a tree passing the tests' checks
\* has called _cavlAdjustBalance(x, r), the call returns with no assertion
\* failed, and if it has rotated, the heavy child z = x.lr[r] had a bf other
\* than 0, the node returned has bf 0 and the loop is left with that call, so
\* that an insertion makes one single or double rotation at most.
C34_NoBalancedChildOnInsert ==
    [][ \A x \in {last'.arg} :
          (/\ last.pending = "growth"
           /\ last'.op = "adjust"
           /\ last.pre)
          =>
            /\ status' = "ok"
            /\ last'.af = {}
            /\ (last'.rot >= 1) =>
                  /\ t[x].lr[last'.flag] # NULL
                  /\ t[t[x].lr[last'.flag]].bf # 0
                  /\ t'[last'.out].bf = 0
                  /\ last'.pending = "none"
      ]_vars

\* An insertion that followed a removal or a rotation, and has put every node
\* into the tree again, has rotated twice in one call of _cavlAdjustBalance:
\* the node returned is a former grandchild of x with bf 0, and the loop has
\* been left below the root.
C34_Witness ==
    /\ status = "ok"
    /\ last.op = "adjust"
    /\ Cardinality(mask) = UnitKeys
    /\ last.pre
    /\ nops >= 1
    /\ last.rot = 2
    /\ t[last.out].bf = 0
    /\ t[last.out].up # NULL
    /\ ValidTree(t, root, mask)

\* C35 - Successor assertion in cavlRemove: when cavlRemove(node) is called
\* for a node with two children, the leftmost node re of node's right subtree
\* exists, has no left child, has a parent, and is the left child of that
\* parent, so that the assertion of line 253 does not fail.
C35_SuccessorAssertion ==
    [][ \A node \in Nodes :
            (/\ last'.op = "remove"
             /\ last'.arg = node
             /\ t[node].lr[0] # NULL
             /\ t[node].lr[1] # NULL)
            =>
             \A re \in {cavlFindExtremum(t, t[node].lr[1], 0).out} :
              /\ re # NULL
              /\ t[re].lr[0] = NULL
              /\ t[re].up # NULL
              /\ t[t[re].up].lr[0] = re
              /\ 253 \notin last'.af
      ]_vars

\* C36 - Link assertions during walks: in no call does the assertion of the
\* descent of cavlSearch (line 217: the child stepped into has the node it
\* was reached from as up) or the assertion of _cavlRetraceOnGrowth (line
\* 185: p.lr[r] is the child c just climbed from) evaluate to false.
C36_LinkAssertions == last.af \cap {185, 217} = {}

\* C37 - Heavy side is never empty: in no call of cavlSearch or cavlRemove
\* does _cavlAdjustBalance find the heavy child z = x.lr[!r] absent when the
\* new balance is +-2 (assertion of line 127) or, in the branch with two
\* rotations, the grandchild y = z.lr[r] absent (assertion of line 145).
C37_HeavySideNotEmpty == last.af \cap {127, 145} = {}

\* C38 - The stored bf field is never +-2: after every step of cavlSearch and
\* cavlRemove, the calls of _cavlAdjustBalance inside their loops included,
\* every node's bf field is within -1..+1, and the assertion on x.bf at the
\* entry of _cavlAdjustBalance (line 119) has not failed.
C38_StoredBfInRange ==
    /\ \A n \in DOMAIN t : t[n].bf \in -1..1
    /\ 119 \notin last.af

\* _cavlAdjustBalance has rotated, its candidate balance having been +-2, and
\* has left x with a bf of +-1 below the node returned: the single rotation
\* with a balanced child.
C38_Witness ==
    /\ status = "ok"
    /\ last.op = "adjust"
    /\ last.rot = 1
    /\ t[last.arg].bf # 0
    /\ t[last.out].bf = -t[last.arg].bf
    /\ t[last.arg].up = last.out

====
